---- MODULE Spec2Model ----
(***************************************************************************)
(* Model of the SimpleStorage ledger (contracts/SimpleStorage.sol): the    *)
(* append-only array of BlockData, the blockCount counter and the          *)
(* BlockCreated event log, driven by externally submitted transactions.    *)
(*                                                                         *)
(* A Solidity transaction is atomic: when any statement of the called      *)
(* function reverts, every storage write and every log of that call is     *)
(* rolled back.  Each entry point is therefore one action; inside it the   *)
(* statements are applied in source order to a working copy of the         *)
(* storage, and the copy is committed only when no statement reverted.     *)
(***************************************************************************)
EXTENDS Integers, Sequences, FiniteSets, TLC

(* ------------------------------ bounds --------------------------------- *)

\* width of the ledger's unsigned integers (uint256 in the source, scaled)
UintBits == 3

\* appends are submitted only while fewer than MaxBlocks records are stored
MaxBlocks == 3

MaxUint == 2^UintBits - 1

\* callers (msg.sender)
Addresses == {"owner", "addr1"}

\* names passed to saveName / saveNameAndSum
Names == {"", "Test Name"}

\* integer arguments passed to saveNameAndSum / saveSum
UintInputs == {0, 1, MaxUint}

\* ids passed to getBlock
IdInputs == (0 .. MaxBlocks + 1) \cup {MaxUint}

(* ------------------------------ state ---------------------------------- *)

VARIABLES
    blocks,      \* BlockData[] public blocks
    blockCount,  \* uint256 public blockCount
    events,      \* the BlockCreated log of the contract, oldest first
    appends,     \* what each successful append call supplied, oldest first
    last         \* the most recent call and its outcome

\* the chain around the contract
VARIABLES
    receipts,    \* receipts[k]: number of the chain block that holds the
                 \* transaction which emitted events[k] (its hash is k)
    pool         \* transactions submitted by the writers and not yet executed

\* the Blocks page (pages/blocks/index.js)
VARIABLES
    ethereum,         \* window.ethereum is present
    contractAddress,  \* process.env.NEXT_PUBLIC_CONTRACT_ADDRESS is set
    page,             \* "init", "mounted" or "unmounted"
    viewBlocks,       \* const [blocks, setBlocks] = useState([])
    loading,          \* const [loading, setLoading] = useState(true)
    error,            \* const [error, setError] = useState(null)
    listener,         \* "on" once contract.on("BlockCreated", ...) ran
    undelivered,      \* BlockCreated events not yet handed to the listener
    cyc,              \* the running invocations of loadBlocks
    ended             \* the invocation that ended in the step just taken

\* the home page (pages/index.js)
VARIABLES
    home              \* the save action the page is running, or its outcome

ledgerVars == <<blocks, blockCount, events, appends, last>>
chainVars == <<receipts, pool>>
configVars == <<ethereum, contractAddress>>
pageVars == <<page, viewBlocks, loading, error, listener, undelivered, cyc,
              ended>>

homeVars == <<home>>

vars == <<ledgerVars, chainVars, configVars, pageVars, homeVars>>

(* ---------------------- Solidity building blocks ----------------------- *)

\* struct BlockData { uint256 id; string name; uint256 sum; address creator; }
BlockData(id, name, sum, creator) ==
    [id |-> id, name |-> name, sum |-> sum, creator |-> creator]

\* event BlockCreated(uint256 id, string name, uint256 sum, address indexed creator)
BlockCreated(id, name, sum, creator) ==
    [id |-> id, name |-> name, sum |-> sum, creator |-> creator]

\* the storage and log of the contract as one value, plus the revert flag
\* of the call in progress
Storage(b, c, e) == [blocks |-> b, blockCount |-> c, events |-> e, err |-> ""]

\* a statement that reverts: later statements have no effect
Revert(st, msg) == IF st.err = "" THEN [st EXCEPT !.err = msg] ELSE st

\* variant of CheckedAdd: unchecked arithmetic, the sum wraps modulo 2^UintBits
CheckedAdd_Wrapping(x, y) ==
    [ok |-> TRUE, val |-> (x + y) % (MaxUint + 1)]

\* checked uint256 addition (pragma solidity ^0.8.0): Panic(0x11) on overflow
CheckedAdd(x, y) ==
    IF x + y > MaxUint THEN [ok |-> FALSE, val |-> (x + y) % (MaxUint + 1)]
                       ELSE [ok |-> TRUE, val |-> x + y]

\* variant of Push: the new record is stored in front of the others
Push_Front(st, rec) ==
    IF st.err # "" THEN st ELSE [st EXCEPT !.blocks = <<rec>> \o @]

\* blocks.push(rec)
Push(st, rec) ==
    IF st.err # "" THEN st ELSE [st EXCEPT !.blocks = Append(@, rec)]

\* emit BlockCreated(...)
Emit(st, ev) ==
    IF st.err # "" THEN st ELSE [st EXCEPT !.events = Append(@, ev)]

\* blockCount++
Incr(st) ==
    IF st.err # "" THEN st
    ELSE IF CheckedAdd(st.blockCount, 1).ok
         THEN [st EXCEPT !.blockCount = CheckedAdd(@, 1).val]
         ELSE Revert(st, "Panic(0x11)")

(* --------------------------- entry points ------------------------------ *)

\* variant of saveName: the counter is incremented before the record is built
saveName_IncrFirst(st, sender, name) ==
    LET s0 == Incr(st)
        s1 == Push(s0, BlockData(s0.blockCount, name, 0, sender))
    IN  Emit(s1, BlockCreated(s1.blockCount, name, 0, sender))

\* variant of saveName: the BlockCreated event is not emitted
saveName_NoEmit(st, sender, name) ==
    Incr(Push(st, BlockData(st.blockCount, name, 0, sender)))

\* variant of saveName: the counter is passed in the sum position too
saveName_SumSlot(st, sender, name) ==
    LET s1 == Push(st, BlockData(st.blockCount, name, st.blockCount, sender))
        s2 == Emit(s1, BlockCreated(s1.blockCount, name, s1.blockCount, sender))
    IN  Incr(s2)

\* function saveName(string calldata name) public
saveName(st, sender, name) ==
    LET s1 == Push(st, BlockData(st.blockCount, name, 0, sender))
        s2 == Emit(s1, BlockCreated(s1.blockCount, name, 0, sender))
    IN  Incr(s2)

\* variant of saveNameAndSum: the sum argument is dropped, as in saveName
saveNameAndSum_NoSum(st, sender, name, sum) ==
    LET s1 == Push(st, BlockData(st.blockCount, name, 0, sender))
        s2 == Emit(s1, BlockCreated(s1.blockCount, name, 0, sender))
    IN  Incr(s2)

\* variant of saveNameAndSum: the event is emitted after the increment
saveNameAndSum_EmitLate(st, sender, name, sum) ==
    LET s1 == Push(st, BlockData(st.blockCount, name, sum, sender))
        s2 == Incr(s1)
    IN  Emit(s2, BlockCreated(s2.blockCount, name, sum, sender))

\* function saveNameAndSum(string calldata name, uint256 sum) public
saveNameAndSum(st, sender, name, sum) ==
    LET s1 == Push(st, BlockData(st.blockCount, name, sum, sender))
        s2 == Emit(s1, BlockCreated(s1.blockCount, name, sum, sender))
    IN  Incr(s2)

\* variant of saveSum: the counter is not incremented
saveSum_NoIncr(st, sender, num1, num2) ==
    LET add == CheckedAdd(num1, num2)
        s0  == IF add.ok THEN st ELSE Revert(st, "Panic(0x11)")
        s1  == Push(s0, BlockData(s0.blockCount, "", add.val, sender))
    IN  Emit(s1, BlockCreated(s1.blockCount, "", add.val, sender))

\* variant of saveSum: unchecked addition, the sum wraps around
saveSum_Unchecked(st, sender, num1, num2) ==
    LET sum == (num1 + num2) % (MaxUint + 1)
        s1  == Push(st, BlockData(st.blockCount, "", sum, sender))
        s2  == Emit(s1, BlockCreated(s1.blockCount, "", sum, sender))
    IN  Incr(s2)

\* variant of saveSum: only the first number is stored
saveSum_FirstOnly(st, sender, num1, num2) ==
    LET add == CheckedAdd(num1, num2)
        s0  == IF add.ok THEN st ELSE Revert(st, "Panic(0x11)")
        s1  == Push(s0, BlockData(s0.blockCount, "", num1, sender))
        s2  == Emit(s1, BlockCreated(s1.blockCount, "", num1, sender))
    IN  Incr(s2)

\* function saveSum(uint256 num1, uint256 num2) public
saveSum(st, sender, num1, num2) ==
    LET add == CheckedAdd(num1, num2)
        s0  == IF add.ok THEN st ELSE Revert(st, "Panic(0x11)")
        s1  == Push(s0, BlockData(s0.blockCount, "", add.val, sender))
        s2  == Emit(s1, BlockCreated(s1.blockCount, "", add.val, sender))
    IN  Incr(s2)

\* variant of getBlock: the range check admits id = blockCount
getBlock_Inclusive(b, c, id) ==
    IF ~(id <= c) THEN [err |-> "Invalid block ID", ret |-> <<>>]
    ELSE IF ~(id < Len(b)) THEN [err |-> "Panic(0x32)", ret |-> <<>>]
    ELSE [err |-> "", ret |-> <<b[id + 1]>>]

\* function getBlock(uint256 id) public view returns (BlockData memory)
\* require(id < blockCount, "Invalid block ID"); return blocks[id];
\* (blocks[id] itself panics with 0x32 when id is outside the array)
getBlock(b, c, id) ==
    IF ~(id < c) THEN [err |-> "Invalid block ID", ret |-> <<>>]
    ELSE IF ~(id < Len(b)) THEN [err |-> "Panic(0x32)", ret |-> <<>>]
    ELSE [err |-> "", ret |-> <<b[id + 1]>>]

\* the storage a transaction leaves behind: its writes and logs when it
\* completed, the storage it started from when it reverted
Commit(before, after) == IF after.err = "" THEN after ELSE before

(* ------------------------- chain and provider -------------------------- *)

\* number of the newest chain block (the contract is deployed in the first)
HeadBlock == IF receipts = <<>> THEN 1 ELSE receipts[Len(receipts)]

\* ethBlock.timestamp, in seconds: grows with the block number
TimestampOf(blockNumber) == 12 * blockNumber

\* contract.queryFilter(filter, 0, "latest"): one log per BlockCreated,
\* oldest first, each tagged with the hash of the emitting transaction
QueryFilter(ev) ==
    [k \in 1 .. Len(ev) |->
        [args |-> <<ev[k].id, ev[k].name, ev[k].sum, ev[k].creator>>,
         transactionHash |-> k]]

\* provider.getTransactionReceipt(hash): null for an unknown hash
getTransactionReceipt(rc, hash) ==
    IF hash \in 1 .. Len(rc) THEN <<[blockNumber |-> rc[hash]]>> ELSE <<>>

\* provider.getBlock(blockNumber)
getEthBlock(blockNumber) == <<[timestamp |-> TimestampOf(blockNumber)]>>

(* --------------------------- lib/contractUtils -------------------------- *)

\* a JavaScript number holds fewer significant bits than a uint (53 of 256
\* in the source, scaled)
FloatBits == UintBits - 1

\* the position of the highest set bit of x > 0
RECURSIVE Log2(_)
Log2(x) == IF x <= 1 THEN 0 ELSE 1 + Log2(x \div 2)

\* Number(x) of a BigInt x: the nearest value with FloatBits significant
\* bits, ties to even
ToNumber(x) ==
    IF x < 2^FloatBits THEN x
    ELSE LET ulp == 2^(Log2(x) - FloatBits + 1)
             lo  == (x \div ulp) * ulp
             r   == x - lo
         IN  IF 2 * r < ulp THEN lo
             ELSE IF 2 * r > ulp THEN lo + ulp
             ELSE IF (lo \div ulp) % 2 = 0 THEN lo ELSE lo + ulp

\* new Date(ms).toISOString()
ToISOString(ms) == <<"ISO", ms>>

\* getContract(signer): throws when the contract address is not configured
getContract(address) == IF address THEN "ok" ELSE "throw"

\* formatBlock that stamps every entry with the time of the refresh
formatBlock_ClockStamp(block, metadata, now) ==
    [id |-> IF block.id # 0 THEN ToNumber(block.id) ELSE 0,
     name |-> IF block.name # "" THEN block.name ELSE "",
     sum |-> IF block.sum # 0 THEN ToNumber(block.sum) ELSE 0,
     creator |-> block.creator,
     ethBlockNumber |-> IF metadata.ethBlockNumber # 0
                        THEN metadata.ethBlockNumber ELSE 0,
     timestamp |-> ToISOString(now)]

\* formatBlock(block, metadata); `now` is what new Date() reads.  0n, 0 and
\* "" are falsy.
formatBlock(block, metadata, now) ==
    [id |-> IF block.id # 0 THEN ToNumber(block.id) ELSE 0,
     name |-> IF block.name # "" THEN block.name ELSE "",
     sum |-> IF block.sum # 0 THEN ToNumber(block.sum) ELSE 0,
     creator |-> block.creator,
     ethBlockNumber |-> IF metadata.ethBlockNumber # 0
                        THEN metadata.ethBlockNumber ELSE 0,
     timestamp |-> IF metadata.timestamp # <<>>
                   THEN metadata.timestamp ELSE ToISOString(now)]

(* ------------------------ pages/blocks: loadBlocks ---------------------- *)

\* concurrent invocations of loadBlocks the model follows
Cycles == {1, 2}

\* values new Date() can read
ClockInputs == {1000, 2000}

\* an invocation that is not running
IdleCycle ==
    [pc |-> "idle", count |-> 0, i |-> 0, blocksData |-> <<>>,
     block |-> <<>>, event |-> <<>>, txReceipt |-> <<>>, skipped |-> {}]

\* the step just taken ended no invocation
NoEnd ==
    [kind |-> "none", count |-> 0, skipped |-> {}, call |-> "", resp |-> "",
     writes |-> 0, errs |-> 0]

\* the step just taken ended an invocation: how it ended, the count it had
\* read, the indexes it pushed no entry for, the awaited call whose answer
\* ended it, and how often it called setBlocks and setError(LoadError)
Ended(kind, L, call, resp, writes, errs) ==
    [kind |-> kind, count |-> L.count, skipped |-> L.skipped,
     call |-> call, resp |-> resp, writes |-> writes, errs |-> errs]

\* a search that gives up when several logs match
Find_Unique(logs, i) ==
    LET hits == {k \in 1 .. Len(logs) : ToNumber(logs[k].args[1]) = i}
    IN  IF Cardinality(hits) # 1 THEN <<>>
        ELSE <<logs[CHOOSE k \in hits : TRUE]>>

\* events.find((e) => Number(e.args[0]) === i)
Find(logs, i) ==
    LET hits == {k \in 1 .. Len(logs) : ToNumber(logs[k].args[1]) = i}
    IN  IF hits = {} THEN <<>>
        ELSE <<logs[CHOOSE k \in hits : \A h \in hits : k <= h]>>

\* top of the loop body for index j: const block = await contract.getBlock(j)
StartItem(L, j) ==
    [L EXCEPT !.i = j, !.pc = "getBlock", !.block = <<>>, !.event = <<>>,
              !.txReceipt = <<>>]

\* for (let i = count - 1; i >= 0; i--): the loop test for index j; after
\* the loop come setBlocks(blocksData) and setError(null)
LoopFrom(L, j) ==
    IF j >= 0 THEN StartItem(L, j)
    ELSE [L EXCEPT !.i = j, !.pc = "publish", !.block = <<>>, !.event = <<>>,
                   !.txReceipt = <<>>]

\* i-- and the loop test
NextItem(L) == LoopFrom(L, L.i - 1)

\* a failure of the loop body that reaches the outer catch
SkipItem_Rethrow(L) == [L EXCEPT !.skipped = @ \cup {L.i}, !.pc = "failed"]

\* a failure that leaves the loop instead of going on to the next index
SkipItem_Break(L) == [L EXCEPT !.skipped = @ \cup {L.i}, !.pc = "publish"]

\* no entry is pushed for index i (nothing matched, or the inner catch ran)
SkipItem(L) == NextItem([L EXCEPT !.skipped = @ \cup {L.i}])

\* a response of an awaited call: it resolved, it threw, or it never came
Responses == {"ok", "throw", "never"}

\* the invocation waits for a promise that never settles; nothing resumes it
Hang(L) == [IdleCycle EXCEPT !.pc = "hung"]

\* contract = await getContract(provider), then contract.blockCount()
AfterGetContract(L, address) ==
    IF getContract(address) = "ok" THEN [L EXCEPT !.pc = "blockCount"]
    ELSE [L EXCEPT !.pc = "failed"]

\* a loop that starts at index count instead of count - 1
AfterBlockCount_FromCount(L, resp, c) ==
    IF resp = "never" THEN Hang(L)
    ELSE IF resp = "throw" THEN [L EXCEPT !.pc = "failed"]
    ELSE LoopFrom([L EXCEPT !.count = ToNumber(c), !.blocksData = <<>>],
                  ToNumber(c))

\* a count read whose failure is taken for an empty ledger
AfterBlockCount_EmptyOnThrow(L, resp, c) ==
    IF resp = "never" THEN Hang(L)
    ELSE IF resp = "throw"
    THEN LoopFrom([L EXCEPT !.count = 0, !.blocksData = <<>>], 0 - 1)
    ELSE LoopFrom([L EXCEPT !.count = ToNumber(c), !.blocksData = <<>>],
                  ToNumber(c) - 1)

\* blockCount = await contract.blockCount(); count = Number(blockCount);
\* blocksData = []; then the loop starts at count - 1
AfterBlockCount(L, resp, c) ==
    IF resp = "never" THEN Hang(L)
    ELSE IF resp = "throw" THEN [L EXCEPT !.pc = "failed"]
    ELSE LoopFrom([L EXCEPT !.count = ToNumber(c), !.blocksData = <<>>],
                  ToNumber(c) - 1)

\* block = await contract.getBlock(i): a revert of the call is thrown too
AfterGetBlock(L, resp, r) ==
    IF resp = "never" THEN Hang(L)
    ELSE IF resp = "throw" \/ r.err # "" THEN SkipItem(L)
    ELSE [L EXCEPT !.block = r.ret, !.pc = "queryFilter"]

\* events = await contract.queryFilter(filter, 0, "latest");
\* event = events.find(...); if (event) ... getTransactionReceipt
AfterQueryFilter(L, resp, logs) ==
    IF resp = "never" THEN Hang(L)
    ELSE IF resp = "throw" THEN SkipItem(L)
    ELSE IF Find(logs, L.i) # <<>>
         THEN [L EXCEPT !.event = Find(logs, L.i),
                        !.pc = "getTransactionReceipt"]
         ELSE SkipItem(L)

\* txReceipt = await provider.getTransactionReceipt(event.transactionHash);
\* reading txReceipt.blockNumber of a null receipt throws a TypeError
AfterReceipt(L, resp, receipt) ==
    IF resp = "never" THEN Hang(L)
    ELSE IF resp = "throw" \/ receipt = <<>> THEN SkipItem(L)
    ELSE [L EXCEPT !.txReceipt = receipt, !.pc = "getEthBlock"]

\* entries put in front of the list (unshift) instead of behind it
AfterEthBlock_Unshift(L, resp, ethBlock, now) ==
    IF resp = "never" THEN Hang(L)
    ELSE IF resp = "throw" \/ ethBlock = <<>> THEN SkipItem(L)
    ELSE NextItem([L EXCEPT !.blocksData =
            <<formatBlock(L.block[1],
                  [ethBlockNumber |-> L.txReceipt[1].blockNumber,
                   timestamp |-> ToISOString(ethBlock[1].timestamp * 1000)],
                  now)>> \o @])

\* ethBlock = await provider.getBlock(txReceipt.blockNumber);
\* blocksData.push(formatBlock(block, {...}))
AfterEthBlock(L, resp, ethBlock, now) ==
    IF resp = "never" THEN Hang(L)
    ELSE IF resp = "throw" \/ ethBlock = <<>> THEN SkipItem(L)
    ELSE NextItem([L EXCEPT !.blocksData =
            Append(@, formatBlock(L.block[1],
                      [ethBlockNumber |-> L.txReceipt[1].blockNumber,
                       timestamp |-> ToISOString(ethBlock[1].timestamp * 1000)],
                      now))])

(* ------------------------------ actions -------------------------------- *)

Call(op, sender, name, a, b, id, err, ret) ==
    [op |-> op, sender |-> sender, name |-> name, a |-> a, b |-> b,
     id |-> id, err |-> err, ret |-> ret]

\* null, as held by the error state
Null == "null"

\* the contract right after deployment
LedgerInit ==
    /\ blocks = <<>>
    /\ blockCount = 0
    /\ events = <<>>
    /\ appends = <<>>
    /\ last = Call("deploy", "owner", "", 0, 0, 0, "", <<>>)

\* no transaction has been sent to the contract
ChainInit ==
    /\ receipts = <<>>
    /\ pool = {}

\* no save action has been started
HomeIdle ==
    [pc |-> "idle", tx |-> <<>>, sent |-> 0, seen |-> 0, outcome |-> ""]

\* the home page before any click
HomeInit == home = HomeIdle

\* the Blocks page before its first render
PageInit ==
    /\ page = "init"
    /\ viewBlocks = <<>>
    /\ loading = TRUE
    /\ error = Null
    /\ listener = "off"
    /\ undelivered = 0
    /\ cyc = [c \in Cycles |-> IdleCycle]
    /\ ended = NoEnd

Init ==
    /\ LedgerInit
    /\ ChainInit
    /\ PageInit
    /\ HomeInit
    /\ ethereum = TRUE
    /\ contractAddress = TRUE

\* every transaction is mined in a chain block of its own
Automine ==
    receipts' = IF Len(events') > Len(events)
                THEN Append(receipts, HeadBlock + 1) ELSE receipts

\* what a step of the contract leaves alone
OffPage == UNCHANGED <<pool, configVars, homeVars, pageVars>>

\* a transaction that ran an append entry point with outcome `after`;
\* `supplied` is the (name, sum, creator) the caller asked to be stored
Transact(after, supplied, call) ==
    LET before == Storage(blocks, blockCount, events)
        st     == Commit(before, after)
    IN  /\ blocks' = st.blocks
        /\ blockCount' = st.blockCount
        /\ events' = st.events
        /\ appends' = IF after.err = "" THEN Append(appends, supplied)
                                        ELSE appends
        /\ last' = [call EXCEPT !.err = after.err]

SaveName ==
    \E sender \in Addresses, name \in Names :
        /\ blockCount < MaxBlocks
        /\ Transact(saveName(Storage(blocks, blockCount, events), sender, name),
                    [name |-> name, sum |-> 0, creator |-> sender],
                    Call("saveName", sender, name, 0, 0, 0, "", <<>>))
        /\ Automine
        /\ OffPage

SaveNameAndSum ==
    \E sender \in Addresses, name \in Names, sum \in UintInputs :
        /\ blockCount < MaxBlocks
        /\ Transact(saveNameAndSum(Storage(blocks, blockCount, events),
                                   sender, name, sum),
                    [name |-> name, sum |-> sum, creator |-> sender],
                    Call("saveNameAndSum", sender, name, sum, 0, 0, "", <<>>))
        /\ Automine
        /\ OffPage

SaveSum ==
    \E sender \in Addresses, num1 \in UintInputs, num2 \in UintInputs :
        /\ blockCount < MaxBlocks
        /\ Transact(saveSum(Storage(blocks, blockCount, events),
                            sender, num1, num2),
                    [name |-> "", sum |-> num1 + num2, creator |-> sender],
                    Call("saveSum", sender, "", num1, num2, 0, "", <<>>))
        /\ Automine
        /\ OffPage

\* eth_call of getBlock(id): a view function, no storage write, no log;
\* msg.sender is not read by it
GetBlock ==
    \E id \in IdInputs :
        LET r == getBlock(blocks, blockCount, id)
        IN  /\ last' = Call("getBlock", "", "", 0, 0, id, r.err, r.ret)
            /\ UNCHANGED <<blocks, blockCount, events, appends, receipts>>
            /\ OffPage

\* eth_call of the public getter blockCount()
BlockCount ==
    /\ last' = Call("blockCount", "", "", 0, 0, 0, "", <<blockCount>>)
    /\ UNCHANGED <<blocks, blockCount, events, appends, receipts>>
    /\ OffPage

Next ==
    \/ SaveName
    \/ SaveNameAndSum
    \/ SaveSum
    \/ GetBlock
    \/ BlockCount

Spec == Init /\ [][Next]_vars

(* ------------------- calls through the contract ABI -------------------- *)

\* number of inputs the ABI (lib/SimpleStorageABI.js) and the contract
\* declare for each function
AbiInputs(fn) ==
    CASE fn = "blockCount" -> 0
      [] fn = "getBlock" -> 1
      [] fn = "saveName" -> 1
      [] fn = "saveNameAndSum" -> 2
      [] fn = "saveSum" -> 2

\* the client library encodes a call only when the number of arguments is
\* the number of inputs of the function; otherwise the call throws and no
\* transaction is sent
Encode(fn, args) ==
    IF Len(args) = AbiInputs(fn) THEN ""
    ELSE IF Len(args) > AbiInputs(fn) THEN "too many arguments"
    ELSE "missing argument"

\* await simpleStorage.saveName(name, sum), as the test "Should save name
\* correctly" of the first test file calls it
SaveNameWithSum ==
    \E sender \in Addresses, name \in Names, sum \in UintInputs :
        /\ blockCount < MaxBlocks
        /\ IF Encode("saveName", <<name, sum>>) = ""
           THEN Transact(saveName(Storage(blocks, blockCount, events),
                                  sender, name),
                         [name |-> name, sum |-> 0, creator |-> sender],
                         Call("saveName(name, sum)", sender, name, sum, 0, 0,
                              "", <<>>))
           ELSE /\ UNCHANGED <<blocks, blockCount, events, appends>>
                /\ last' = Call("saveName(name, sum)", sender, name, sum, 0, 0,
                                Encode("saveName", <<name, sum>>), <<>>)
        /\ Automine
        /\ OffPage

\* the operations of the first test file
NextAbi ==
    \/ SaveNameWithSum
    \/ SaveSum
    \/ GetBlock

SpecAbi == Init /\ [][NextAbi]_vars

(* ---------------------- concurrent submissions ------------------------- *)

\* the calls a writer submits
PoolCalls(w) ==
    {Call("saveName", w, "Test Name", 0, 0, blockCount, "", <<>>),
     Call("saveNameAndSum", w, "", 1, 0, blockCount, "", <<>>),
     Call("saveSum", w, "", 1, 1, blockCount, "", <<>>),
     Call("saveSum", w, "", 1, MaxUint, blockCount, "", <<>>)}

\* variant of Run: the record is numbered with the blockCount the writer
\* saw when it submitted the transaction
Run_Stale(st, tx) ==
    CASE tx.op = "saveName" ->
            saveName([st EXCEPT !.blockCount = tx.id], tx.sender, tx.name)
      [] tx.op = "saveNameAndSum" ->
            saveNameAndSum([st EXCEPT !.blockCount = tx.id], tx.sender,
                           tx.name, tx.a)
      [] tx.op = "saveSum" ->
            saveSum([st EXCEPT !.blockCount = tx.id], tx.sender, tx.a, tx.b)

\* the function selector of a transaction picks the entry point, which
\* runs on the storage as it is when the transaction executes
Run(st, tx) ==
    CASE tx.op = "saveName" -> saveName(st, tx.sender, tx.name)
      [] tx.op = "saveNameAndSum" ->
            saveNameAndSum(st, tx.sender, tx.name, tx.a)
      [] tx.op = "saveSum" -> saveSum(st, tx.sender, tx.a, tx.b)

\* what the caller of a transaction asked to be stored
Supplied(tx) ==
    [name |-> tx.name,
     sum |-> IF tx.op = "saveSum" THEN tx.a + tx.b ELSE tx.a,
     creator |-> tx.sender]

\* a writer signs and sends a transaction; tx.id keeps the blockCount the
\* writer saw at that moment.  A writer has one transaction in flight.
Submit ==
    \E w \in Addresses :
        /\ \A tx \in pool : tx.sender # w
        /\ \E tx \in PoolCalls(w) : pool' = pool \cup {tx}
        /\ UNCHANGED <<ledgerVars, receipts, configVars, homeVars, pageVars>>

\* the chain executes one of the pending transactions, in any order
Execute ==
    \E tx \in pool :
        /\ blockCount < MaxBlocks
        /\ Transact(Run(Storage(blocks, blockCount, events), tx),
                    Supplied(tx), tx)
        /\ Automine
        /\ pool' = pool \ {tx}
        /\ UNCHANGED <<configVars, homeVars, pageVars>>

NextPool ==
    \/ Submit
    \/ Execute

SpecPool == Init /\ [][NextPool]_vars

(* ----------------------------- Blocks page ----------------------------- *)

\* the page is followed while fewer than MaxIdxBlocks records are stored
MaxIdxBlocks == 2

\* the append made while the page is open and n records are stored: the
\* two writers take turns
IdxCall(n) ==
    IF n % 2 = 0
    THEN Call("saveName", "owner", "Test Name", 0, 0, 0, "", <<>>)
    ELSE Call("saveSum", "addr1", "", MaxUint, 0, 0, "", <<>>)

\* setError(...) of the outer catch
LoadError == "Failed to load blocks. Please check your connection and try again."

\* a state setter of a component that is no longer mounted has no effect
SetState(old, new) == IF page = "unmounted" THEN old ELSE new

\* setBlocks called with the list built so far whenever the refresh waits
Settle_Eager(c, L, call, resp) ==
    IF L.pc = "publish"
    THEN /\ viewBlocks' = SetState(viewBlocks, L.blocksData)
         /\ error' = SetState(error, Null)
         /\ loading' = SetState(loading, FALSE)
         /\ cyc' = [cyc EXCEPT ![c] = IdleCycle]
         /\ ended' = Ended("published", L, call, resp, 1, 0)
    ELSE IF L.pc = "failed"
    THEN /\ viewBlocks' = viewBlocks
         /\ error' = SetState(error, LoadError)
         /\ loading' = SetState(loading, FALSE)
         /\ cyc' = [cyc EXCEPT ![c] = IdleCycle]
         /\ ended' = Ended("failed", L, call, resp, 0, 1)
    ELSE /\ cyc' = [cyc EXCEPT ![c] = L]
         /\ ended' = NoEnd
         /\ viewBlocks' = SetState(viewBlocks, L.blocksData)
         /\ UNCHANGED <<error, loading>>

\* the invocation c ran up to its next await, or to its end, as L, after
\* `call` was answered with `resp`:
\*   after the loop   setBlocks(blocksData); setError(null);
\*   outer catch      setError(LoadError);
\*   finally          setLoading(false)
Settle(c, L, call, resp) ==
    IF L.pc = "publish"
    THEN /\ viewBlocks' = SetState(viewBlocks, L.blocksData)
         /\ error' = SetState(error, Null)
         /\ loading' = SetState(loading, FALSE)
         /\ cyc' = [cyc EXCEPT ![c] = IdleCycle]
         /\ ended' = Ended("published", L, call, resp, 1, 0)
    ELSE IF L.pc = "failed"
    THEN /\ viewBlocks' = viewBlocks
         /\ error' = SetState(error, LoadError)
         /\ loading' = SetState(loading, FALSE)
         /\ cyc' = [cyc EXCEPT ![c] = IdleCycle]
         /\ ended' = Ended("failed", L, call, resp, 0, 1)
    ELSE /\ cyc' = [cyc EXCEPT ![c] = L]
         /\ ended' = NoEnd
         /\ UNCHANGED <<viewBlocks, error, loading>>

\* the first free slot for an invocation
FreeCycle == CHOOSE c \in Cycles :
                /\ cyc[c].pc = "idle"
                /\ \A d \in Cycles : cyc[d].pc = "idle" => c <= d

\* loadBlocks() is called.  Without window.ethereum it only clears the
\* loading flag.  Otherwise  await getContract(provider)  is settled before
\* any other event is handled (getContract awaits nothing), so the call
\* runs up to  await contract.blockCount()  or into the outer catch.
loadBlocks ==
    IF ~ethereum
    THEN /\ loading' = SetState(loading, FALSE)
         /\ ended' = NoEnd
         /\ UNCHANGED <<viewBlocks, error, cyc>>
    ELSE /\ \E c \in Cycles : cyc[c].pc = "idle"
         /\ Settle(FreeCycle, AfterGetContract(IdleCycle, contractAddress),
                   "getContract", getContract(contractAddress))

OffChain == UNCHANGED <<ledgerVars, chainVars, configVars, homeVars>>

\* useEffect(() => { loadBlocks(); ... setupBlockListener(); ... }, []):
\* setupBlockListener returns without window.ethereum, logs the error of
\* getContract, or subscribes with contract.on("BlockCreated", ...)
Mount ==
    /\ page = "init"
    /\ page' = "mounted"
    /\ loadBlocks
    /\ listener' = IF ethereum /\ getContract(contractAddress) = "ok"
                   THEN "on" ELSE "off"
    /\ UNCHANGED undelivered
    /\ OffChain

\* onClick={loadBlocks} of "Refresh Blocks" / "Try Again": the buttons are
\* rendered once loading is false
ClickRefresh ==
    /\ page = "mounted"
    /\ ~loading
    /\ loadBlocks
    /\ UNCHANGED <<page, listener, undelivered>>
    /\ OffChain

\* the BlockCreated callback: loadBlocks()
Deliver ==
    /\ listener = "on"
    /\ undelivered > 0
    /\ undelivered' = undelivered - 1
    /\ loadBlocks
    /\ UNCHANGED <<page, listener>>
    /\ OffChain

\* the effect's cleanup: removeAllListeners on a contract object of its
\* own; the running invocations go on
Unmount ==
    /\ page = "mounted"
    /\ page' = "unmounted"
    /\ ended' = NoEnd
    /\ UNCHANGED <<viewBlocks, loading, error, listener, undelivered, cyc>>
    /\ OffChain

\* a writer's transaction is executed; a subscribed listener will be told
Write ==
    /\ blockCount < MaxIdxBlocks
    /\ Transact(Run(Storage(blocks, blockCount, events), IdxCall(blockCount)),
                Supplied(IdxCall(blockCount)), IdxCall(blockCount))
    /\ Automine
    /\ undelivered' = IF listener = "on" /\ Len(events') > Len(events)
                      THEN undelivered + 1 ELSE undelivered
    /\ ended' = NoEnd
    /\ UNCHANGED <<pool, configVars, homeVars, page, viewBlocks, loading, error,
                   listener, cyc>>

\* an awaited call of invocation c is answered, with a response of R, for
\* a lookup by hash or number with the object known or not (K), for the
\* stream with every log once or twice (D), and loadBlocks runs on to its
\* next await or to its end
Answered(c, R, K, D) ==
    /\ UNCHANGED <<page, listener, undelivered>>
    /\ OffChain
    /\ \/ /\ cyc[c].pc = "blockCount"
          /\ \E resp \in R :
                Settle(c, AfterBlockCount(cyc[c], resp, blockCount),
                       "blockCount", resp)
       \/ /\ cyc[c].pc = "getBlock"
          /\ \E resp \in R :
                Settle(c, AfterGetBlock(cyc[c], resp,
                                        getBlock(blocks, blockCount, cyc[c].i)),
                       "getBlock", resp)
       \/ /\ cyc[c].pc = "queryFilter"
          /\ \E resp \in R, dup \in D :
                Settle(c, AfterQueryFilter(cyc[c], resp,
                            IF dup THEN QueryFilter(events) \o QueryFilter(events)
                                   ELSE QueryFilter(events)),
                       "queryFilter", resp)
       \/ /\ cyc[c].pc = "getTransactionReceipt"
          /\ \E resp \in R, known \in K :
                Settle(c, AfterReceipt(cyc[c], resp,
                            IF known
                            THEN getTransactionReceipt(receipts,
                                    cyc[c].event[1].transactionHash)
                            ELSE <<>>),
                       "getTransactionReceipt", resp)
       \/ /\ cyc[c].pc = "getEthBlock"
          /\ \E resp \in R, known \in K, now \in ClockInputs :
                Settle(c, AfterEthBlock(cyc[c], resp,
                            IF known
                            THEN getEthBlock(cyc[c].txReceipt[1].blockNumber)
                            ELSE <<>>,
                            now),
                       "getEthBlock", resp)

\* the node and the wallet may fail to answer, or answer with an error
Resume(c) == Answered(c, Responses, BOOLEAN, BOOLEAN)

InitIdx ==
    /\ LedgerInit
    /\ ChainInit
    /\ PageInit
    /\ HomeInit
    /\ ethereum \in BOOLEAN
    /\ contractAddress \in BOOLEAN

NextIdx ==
    \/ Mount
    \/ ClickRefresh
    \/ Deliver
    \/ Unmount
    \/ Write
    \/ \E c \in Cycles : Resume(c)

SpecIdx == InitIdx /\ [][NextIdx]_vars

(* ------------------ Blocks page, every call succeeds ------------------- *)

\* every awaited call resolves and every receipt and chain block is found
ResumeOk(c) == Answered(c, {"ok"}, {TRUE}, BOOLEAN)

NextOk ==
    \/ Mount
    \/ ClickRefresh
    \/ Deliver
    \/ Unmount
    \/ Write
    \/ \E c \in Cycles : ResumeOk(c)

SpecOk == Init /\ [][NextOk]_vars

(* ------------- Blocks page, every log of the stream twice --------------- *)

\* every call succeeds and queryFilter answers with every log twice, all
\* copies of a log carrying its id and the hash of its transaction
ResumeDup(c) == Answered(c, {"ok"}, {TRUE}, {TRUE})

NextDup ==
    \/ Mount
    \/ ClickRefresh
    \/ Deliver
    \/ Unmount
    \/ Write
    \/ \E c \in Cycles : ResumeDup(c)

SpecDup == Init /\ [][NextDup]_vars

(* ------------------------ home page: save actions --------------------- *)

\* what the wallet does with a transaction it is asked to sign
WalletAnswers == {"approve", "reject"}

\* the top of saveName / saveSum: without a signer a toast and return;
\* then  await getContract(signer)  and  contract.saveName(name)  or
\* contract.saveSum(Number(num1), Number(num2)),  which asks the wallet
StartSave(signer, address, call) ==
    IF ~signer
    THEN [HomeIdle EXCEPT !.seen = call.id, !.outcome = "no signer"]
    ELSE IF getContract(address) = "throw"
    THEN [HomeIdle EXCEPT !.seen = call.id, !.outcome = "failed"]
    ELSE [pc |-> "wallet", tx |-> <<call>>, sent |-> 1, seen |-> call.id,
          outcome |-> ""]

\* a handler that asks the wallet a second time after a rejection
AfterWallet_Retry(h, answer) ==
    IF answer = "approve" THEN [h EXCEPT !.pc = "wait"]
    ELSE IF h.sent < 2 THEN [h EXCEPT !.sent = @ + 1]
    ELSE [h EXCEPT !.pc = "idle", !.tx = <<>>, !.outcome = "rejected"]

\* const tx = await contract.saveName(name): the wallet signs and sends
\* the transaction, or the call rejects (code 4001) and the catch block
\* shows a toast
AfterWallet(h, answer) ==
    IF answer = "approve" THEN [h EXCEPT !.pc = "wait"]
    ELSE [h EXCEPT !.pc = "idle", !.tx = <<>>, !.outcome = "rejected"]

\* await tx.wait(): the transaction was mined, or it reverted
AfterWait(h, err) ==
    [h EXCEPT !.pc = "idle", !.tx = <<>>,
              !.outcome = IF err = "" THEN "saved" ELSE "failed"]

OffHome == UNCHANGED <<ledgerVars, receipts, configVars, pageVars>>

\* onClick of "Save Name"
ClickSaveName ==
    \E signer \in BOOLEAN, name \in Names :
        /\ home.pc = "idle"
        /\ blockCount < MaxBlocks
        /\ home' = StartSave(signer, contractAddress,
                     Call("saveName", "owner", name, 0, 0, blockCount, "", <<>>))
        /\ UNCHANGED pool
        /\ OffHome

\* onClick of "Save Sum"
ClickSaveSum ==
    \E signer \in BOOLEAN, num1 \in UintInputs, num2 \in UintInputs :
        /\ home.pc = "idle"
        /\ blockCount < MaxBlocks
        /\ home' = StartSave(signer, contractAddress,
                     Call("saveSum", "owner", "", num1, num2, blockCount, "",
                          <<>>))
        /\ UNCHANGED pool
        /\ OffHome

\* the wallet answers the signing request
Wallet ==
    \E answer \in WalletAnswers :
        /\ home.pc = "wallet"
        /\ home' = AfterWallet(home, answer)
        /\ pool' = IF home'.pc = "wait" THEN pool \cup {home.tx[1]} ELSE pool
        /\ OffHome

\* tx.wait() settles once the transaction has been executed
Waited ==
    /\ home.pc = "wait"
    /\ home.tx[1] \notin pool
    /\ home' = AfterWait(home, last.err)
    /\ UNCHANGED pool
    /\ OffHome

NextHome ==
    \/ ClickSaveName
    \/ ClickSaveSum
    \/ Wallet
    \/ Execute
    \/ Waited

InitHome ==
    /\ LedgerInit
    /\ ChainInit
    /\ PageInit
    /\ HomeInit
    /\ ethereum = TRUE
    /\ contractAddress \in BOOLEAN

SpecHome == InitHome /\ [][NextHome]_vars

(* ------------------- block details page: /blocks/[id] ------------------ *)

\* chain block numbers a visitor can put in the route
CommitInputs == 1 .. MaxBlocks + 2

\* events.find(async (event) => { ...; return receipt.blockNumber ===
\* Number(id); }): the callback returns a Promise, which is truthy for
\* every event, so find returns the first element of a non-empty array
\* whatever id is
relevantEvent(logs, id) == IF logs = <<>> THEN <<>> ELSE <<logs[1]>>

\* fetchBlockDetails with every call answered: the record passed to
\* setBlock and the blockNumber put in txDetails, or the error message
fetchBlockDetails(b, c, ev, rc, id) ==
    LET event == relevantEvent(QueryFilter(ev), id)
    IN  IF event = <<>> THEN [err |-> "Block not found", ret |-> <<>>]
        ELSE LET contractBlockId == ToNumber(event[1].args[1])
                 blockData == getBlock(b, c, contractBlockId)
                 receipt == getTransactionReceipt(rc, event[1].transactionHash)
             IN  IF blockData.err # "" THEN [err |-> blockData.err, ret |-> <<>>]
                 ELSE [err |-> "",
                       ret |-> <<[block |-> blockData.ret[1],
                                  blockNumber |-> receipt[1].blockNumber]>>]

\* a visitor opens /blocks/<id>
FetchBlockDetails ==
    \E id \in CommitInputs :
        LET r == fetchBlockDetails(blocks, blockCount, events, receipts, id)
        IN  /\ last' = Call("fetchBlockDetails", "", "", 0, 0, id, r.err, r.ret)
            /\ UNCHANGED <<blocks, blockCount, events, appends, receipts>>
            /\ OffPage

NextDetail ==
    \/ SaveName
    \/ SaveSum
    \/ FetchBlockDetails

SpecDetail == Init /\ [][NextDetail]_vars

(* =========================== properties ================================ *)

AppendOps == {"saveName", "saveNameAndSum", "saveSum"}

\* the step just taken was a successful call of an append entry point
Appended == last'.op \in AppendOps /\ last'.err = ""

\* the record getBlock(id) returns in the current state
Got(id) == getBlock(blocks, blockCount, id).ret[1]

\* C1: after N successful appends (any mix of the three entry points, any
\* callers) blockCount reads N, and for every k < N getBlock(k) succeeds and
\* returns the name, sum and creator that the (k+1)-th append supplied.
C1_AppendsReadBack ==
    /\ blockCount = Len(appends)
    /\ last.op = "blockCount" => last.ret = <<Len(appends)>>
    /\ \A k \in 0 .. Len(appends) - 1 :
          /\ getBlock(blocks, blockCount, k).err = ""
          /\ Got(k).name = appends[k + 1].name
          /\ Got(k).sum = appends[k + 1].sum
          /\ Got(k).creator = appends[k + 1].creator

\* three appends by two callers, the last one a saveSum(1, 1), then a read
\* of blockCount
C1_Witness ==
    /\ Len(appends) = 3
    /\ last.op = "blockCount"
    /\ appends[1] = [name |-> "Test Name", sum |-> 0, creator |-> "owner"]
    /\ appends[2] = [name |-> "Test Name", sum |-> MaxUint, creator |-> "addr1"]
    /\ appends[3] = [name |-> "", sum |-> 2, creator |-> "owner"]

\* the ledger is left alone by a step
LedgerUnchanged == UNCHANGED <<blocks, blockCount, events>>

\* C2: getBlock(id) fails with "Invalid block ID" for every id >= blockCount
\* (id 0 on an empty ledger included) and does not fail for any
\* id < blockCount; a getBlock call leaves the ledger unchanged.
C2_GetBlockRange ==
    /\ [](/\ \A id \in 0 .. MaxUint :
                IF id >= blockCount
                THEN getBlock(blocks, blockCount, id).err = "Invalid block ID"
                ELSE getBlock(blocks, blockCount, id).err = ""
          /\ last.op = "getBlock" =>
                (last.err = (IF last.id >= blockCount
                             THEN "Invalid block ID" ELSE "")))
    /\ [][last'.op = "getBlock" => LedgerUnchanged]_vars

\* getBlock(blockCount) was called on a ledger holding two records
C2_Witness ==
    /\ blockCount = 2
    /\ last.op = "getBlock"
    /\ last.id = 2
    /\ last.err = "Invalid block ID"

\* C3: the record stored at position i carries id = i, whichever entry point
\* appended it: ids are 0, 1, 2, ... in append order without gap or reuse.
C3_IdIsPosition ==
    /\ \A i \in 1 .. Len(blocks) : blocks[i].id = i - 1
    /\ \A i, j \in 1 .. Len(blocks) : blocks[i].id = blocks[j].id => i = j

\* the three entry points each appended one record: saveSum(1, 1), then
\* saveNameAndSum("Test Name", MaxUint), then saveName
C3_Witness ==
    /\ Len(blocks) = 3
    /\ blocks[1].name = "" /\ blocks[1].sum = 2
    /\ blocks[2].name = "Test Name" /\ blocks[2].sum = MaxUint
    /\ last.op = "saveName" /\ last.err = ""

\* C4: blockCount equals the number of stored records, the ids for which
\* getBlock succeeds are exactly 0 .. blockCount-1, and blockCount never
\* decreases.
C4_CountIsLength ==
    /\ [](/\ blockCount = Len(blocks)
          /\ {id \in 0 .. MaxUint : getBlock(blocks, blockCount, id).err = ""}
                = 0 .. blockCount - 1)
    /\ [][blockCount' >= blockCount]_vars

\* the highest valid id of a three-record ledger was read
C4_Witness ==
    /\ blockCount = 3
    /\ last.op = "getBlock"
    /\ last.id = 2
    /\ last.err = ""

\* C5: every successful append adds exactly one BlockCreated to the log,
\* carrying the pre-increment counter as id; the i-th log entry has the id,
\* name, sum and creator of the record stored at position i.
C5_OneEventPerAppend ==
    /\ [](/\ Len(events) = Len(appends)
          /\ Len(events) = Len(blocks)
          /\ \A i \in 1 .. Len(events) :
                /\ events[i].id = blocks[i].id
                /\ events[i].name = blocks[i].name
                /\ events[i].sum = blocks[i].sum
                /\ events[i].creator = blocks[i].creator)
    /\ [][Appended =>
            /\ Len(events') = Len(events) + 1
            /\ SubSeq(events', 1, Len(events)) = events
            /\ events'[Len(events')].id = blockCount]_vars

\* a second record was appended by saveNameAndSum, after a first record
C5_Witness ==
    /\ Len(events) = 2
    /\ last.op = "saveNameAndSum"
    /\ last.err = ""
    /\ events[2].id = 1

\* C6: no operation changes, removes or reorders a stored record: after
\* every step each previously stored record is still at its position with
\* the same id, name, sum and creator.
C6_RecordsImmutable ==
    [][/\ Len(blocks') >= Len(blocks)
       /\ \A i \in 1 .. Len(blocks) : blocks'[i] = blocks[i]]_vars

\* a saveSum appended a third record behind two stored ones
C6_Witness ==
    /\ Len(blocks) = 3
    /\ last.op = "saveSum"
    /\ last.err = ""

\* C7: in every observable state the number of BlockCreated entries equals
\* blockCount, and an append that fails changes neither the counter, the
\* stored records nor the log.
C7_AtomicAppend ==
    /\ [](Len(events) = blockCount)
    /\ [][(last'.op \in AppendOps /\ last'.err # "") => LedgerUnchanged]_vars

\* a saveSum reverted on a ledger holding two records
C7_Witness ==
    /\ blockCount = 2
    /\ last.op = "saveSum"
    /\ last.a = MaxUint /\ last.b = MaxUint
    /\ last.err # ""

\* C8: a successful saveName(name) appends exactly one record, whose name
\* is the given name (the empty string included), whose sum is 0 and whose
\* creator is the caller.
C8_SaveName ==
    [][(last'.op = "saveName" /\ last'.err = "") =>
          /\ Len(blocks') = Len(blocks) + 1
          /\ getBlock(blocks', blockCount', blockCount).err = ""
          /\ getBlock(blocks', blockCount', blockCount).ret[1].name = last'.name
          /\ getBlock(blocks', blockCount', blockCount).ret[1].sum = 0
          /\ getBlock(blocks', blockCount', blockCount).ret[1].creator
                = last'.sender]_vars

\* saveName("") by addr1 appended the second record
C8_Witness ==
    /\ Len(blocks) = 2
    /\ last.op = "saveName"
    /\ last.name = ""
    /\ last.sender = "addr1"
    /\ last.err = ""

\* C9: a successful saveSum(a, b) appends exactly one record, whose name is
\* empty, whose sum is a + b and whose creator is the caller.
C9_SaveSum ==
    [][(last'.op = "saveSum" /\ last'.err = "") =>
          /\ Len(blocks') = Len(blocks) + 1
          /\ getBlock(blocks', blockCount', blockCount).err = ""
          /\ getBlock(blocks', blockCount', blockCount).ret[1].name = ""
          /\ getBlock(blocks', blockCount', blockCount).ret[1].sum
                = last'.a + last'.b
          /\ getBlock(blocks', blockCount', blockCount).ret[1].creator
                = last'.sender]_vars

\* saveSum(1, 1) by addr1 appended the second record
C9_Witness ==
    /\ Len(blocks) = 2
    /\ last.op = "saveSum"
    /\ last.a = 1 /\ last.b = 1
    /\ last.sender = "addr1"
    /\ last.err = ""

\* C10 as stated: every append call succeeds, whatever its arguments.
C10_Original ==
    last.op \in AppendOps => last.err = ""

\* C10: while blockCount is below the largest representable integer,
\* saveName and saveNameAndSum succeed for every name and every
\* representable sum, and saveSum(a, b) succeeds exactly when a + b is
\* representable; otherwise it fails with the arithmetic panic.
C10_SucceedsUnlessOverflow ==
    [][(last'.op \in AppendOps /\ blockCount < MaxUint) =>
          IF last'.op = "saveSum" /\ last'.a + last'.b > MaxUint
          THEN last'.err = "Panic(0x11)"
          ELSE last'.err = ""]_vars

\* saveSum(1, MaxUint) was submitted: the smallest sum that does not fit
C10_Witness ==
    /\ last.op = "saveSum"
    /\ last.a = 1 /\ last.b = MaxUint
    /\ last.err = "Panic(0x11)"

\* C11 as stated: saveName called with a name and a sum appends a record
\* with that name, that sum and the caller as creator.
C11_SaveNameStoresSum ==
    last.op = "saveName(name, sum)" =>
        /\ last.err = ""
        /\ Len(blocks) >= 1
        /\ blocks[Len(blocks)].name = last.name
        /\ blocks[Len(blocks)].sum = last.a
        /\ blocks[Len(blocks)].creator = last.sender

\* C12: whatever order the chain executes concurrently submitted appends
\* in, every successful one adds exactly one record behind the stored ones
\* under an id no other record has, and the record at each id holds the
\* name, sum and creator of the append executed at that position.
C12_SerialAppends ==
    /\ [](/\ Len(blocks) = Len(appends)
          /\ \A i, j \in 1 .. Len(blocks) :
                i # j => blocks[i].id # blocks[j].id
          /\ \A k \in 1 .. Len(blocks) :
                /\ blocks[k].id = k - 1
                /\ blocks[k].name = appends[k].name
                /\ blocks[k].sum = appends[k].sum
                /\ blocks[k].creator = appends[k].creator)
    /\ [][\A tx \in pool :
            (pool' = pool \ {tx} /\ last'.err = "") =>
                /\ Len(blocks') = Len(blocks) + 1
                /\ SubSeq(blocks', 1, Len(blocks)) = blocks
                /\ blocks'[Len(blocks')] =
                      BlockData(blockCount, Supplied(tx).name,
                                Supplied(tx).sum, tx.sender)]_vars

\* two writers submitted while the ledger was empty; the transaction that
\* executed second was numbered 1, not the 0 its writer saw
C12_Witness ==
    /\ Len(blocks) = 2
    /\ blocks[1].creator = "addr1"
    /\ last.sender = "owner"
    /\ last.id = 0
    /\ last.err = ""

\* the transaction whose log is the first one of the stream with id i
FirstLog(i) ==
    CHOOSE k \in 1 .. Len(events) :
        /\ events[k].id = i
        /\ \A h \in 1 .. Len(events) : events[h].id = i => k <= h

\* the entry of record i as the ledger, the stream and the chain give it
EntryOf(i) ==
    [id |-> ToNumber(i),
     name |-> blocks[i + 1].name,
     sum |-> ToNumber(blocks[i + 1].sum),
     creator |-> blocks[i + 1].creator,
     ethBlockNumber |-> receipts[FirstLog(i)],
     timestamp |-> ToISOString(TimestampOf(receipts[FirstLog(i)]) * 1000)]

\* the entries of the records j, j-1, .. 0 that are not in `skipped`
RECURSIVE ViewFrom(_, _)
ViewFrom(j, skipped) ==
    IF j < 0 THEN <<>>
    ELSE (IF j \in skipped THEN <<>> ELSE <<EntryOf(j)>>)
         \o ViewFrom(j - 1, skipped)

\* the step just taken published a view on the mounted page
Published == ended.kind = "published" /\ page = "mounted"

\* C13: the view a refresh publishes is fixed, entry for entry and in
\* order, by the ledger, the notification stream, the commit metadata, the
\* count it read and the indexes whose calls failed; it depends on nothing
\* else (not on the clock, the view shown before or another refresh), so
\* two refreshes with the same outcomes publish identical views.
C13_RefreshIdempotent ==
    Published => viewBlocks = ViewFrom(ended.count - 1, ended.skipped)

\* a refresh published both records while a second refresh, with the same
\* count and the same outcomes so far, is about to finish
C13_Witness ==
    /\ Published
    /\ ended.count = 2
    /\ ended.skipped = {}
    /\ Len(viewBlocks) = 2
    /\ \E c \in Cycles :
          /\ cyc[c].pc = "getEthBlock"
          /\ cyc[c].i = 0
          /\ cyc[c].count = 2
          /\ cyc[c].skipped = {}

\* C14: a published view has an entry for exactly the indexes below the
\* count read whose record lookup, notification match and metadata lookup
\* all succeeded, and each of those entries is the one of its record.
C14_FailuresIsolated ==
    Published =>
        /\ {viewBlocks[k].id : k \in 1 .. Len(viewBlocks)}
              = (0 .. ended.count - 1) \ ended.skipped
        /\ Len(viewBlocks) = ended.count - Cardinality(ended.skipped)
        /\ \A k \in 1 .. Len(viewBlocks) :
              viewBlocks[k] = EntryOf(viewBlocks[k].id)

\* of two records the receipt of record 0 was not found: the view has the
\* entry of record 1 alone
C14_Witness ==
    /\ Published
    /\ ended.count = 2
    /\ ended.skipped = {0}
    /\ ended.call = "getTransactionReceipt"
    /\ ended.resp = "ok"
    /\ Len(viewBlocks) = 1
    /\ viewBlocks[1].id = 1

\* C15: a refresh whose handle or count read fails ends in the outer
\* catch: it calls setError once and setBlocks never, the step leaves the
\* view as it was, and the mounted page shows the error with the loading
\* flag cleared.
C15_CountFailureAborts ==
    /\ []((ended.call \in {"getContract", "blockCount"}
              /\ ended.resp = "throw") =>
            /\ ended.kind = "failed"
            /\ ended.errs = 1
            /\ ended.writes = 0
            /\ page = "mounted" => (error = LoadError /\ ~loading))
    /\ [][(ended'.call \in {"getContract", "blockCount"}
              /\ ended'.resp = "throw") =>
            viewBlocks' = viewBlocks]_vars

\* the count read failed while a published entry was on the page: the
\* entry is still there, next to the error
C15_Witness ==
    /\ ended.kind = "failed"
    /\ ended.call = "blockCount"
    /\ page = "mounted"
    /\ Len(viewBlocks) >= 1
    /\ error = LoadError

\* C16: a refresh whose queryFilter call fails ends in the outer catch
\* without publishing.
C16_StreamFailureAborts ==
    (ended.call = "queryFilter" /\ ended.resp = "throw") =>
        ended.kind = "failed"

\* C17: the ids of the view on the page are strictly descending.
C17_StrictlyDescending ==
    \A k \in 1 .. Len(viewBlocks) - 1 :
        viewBlocks[k].id > viewBlocks[k + 1].id

\* both records are on the page, the newer one first
C17_Witness ==
    /\ Len(viewBlocks) = 2
    /\ viewBlocks[1].id = 1
    /\ viewBlocks[2].id = 0
    /\ Len(events) = 2

\* C18: the view on the page changes only in the step that ends a refresh
\* after its loop: that refresh calls setBlocks once, with a list that has
\* an entry or a recorded failure for every index below its count.  A
\* refresh that fails, hangs or outlives the page never changes the view.
C18_PublishAllOrNothing ==
    /\ [][viewBlocks' # viewBlocks =>
            /\ page = "mounted"
            /\ ended'.kind = "published"
            /\ ended'.writes = 1
            /\ \E c \in Cycles :
                  cyc[c].pc \notin {"idle", "hung"} /\ cyc'[c].pc = "idle"
            /\ Len(viewBlocks') + Cardinality(ended'.skipped) = ended'.count
            /\ \A k \in 1 .. Len(viewBlocks') :
                  viewBlocks'[k].id \in (0 .. ended'.count - 1) \ ended'.skipped
         ]_vars
    /\ [](ended.kind \in {"none", "failed"} => ended.writes = 0)

\* one refresh hangs for good; another one replaced the empty view by the
\* complete list of two entries in its last step
C18_Witness ==
    /\ Published
    /\ ended.writes = 1
    /\ ended.count = 2
    /\ Len(viewBlocks) = ended.count
    /\ \E c \in Cycles : cyc[c].pc = "hung"

\* C19: at most one invocation of loadBlocks is between its start and its
\* end at any time.
C19_OneRefreshAtATime ==
    Cardinality({c \in Cycles : cyc[c].pc \notin {"idle", "hung"}}) <= 1

\* C20: a refresh waiting for a call that never responds can still go on:
\* a timeout ends the wait.
C20_CallsTimeOut ==
    \A c \in Cycles : cyc[c].pc = "hung" => ENABLED Resume(c)

\* the awaited calls inside the loop body of loadBlocks
ItemCalls == {"getBlock", "queryFilter", "getTransactionReceipt", "getEthBlock"}

\* C21: every entry of a published view has the name, the sum and the
\* creator getBlock returns for its id, and the number and timestamp of the
\* chain block holding the transaction that emitted BlockCreated with
\* that id.
C21_EntriesFaithful ==
    Published =>
        \A k \in 1 .. Len(viewBlocks) :
            LET e == viewBlocks[k]
            IN  /\ e.id < blockCount
                /\ e.name = Got(e.id).name
                /\ e.sum = Got(e.id).sum
                /\ e.creator = Got(e.id).creator
                /\ e.ethBlockNumber = receipts[FirstLog(e.id)]
                /\ e.timestamp =
                      ToISOString(TimestampOf(receipts[FirstLog(e.id)]) * 1000)

\* C22: a refresh that ends on the answer of a call of the loop body,
\* whatever was skipped, publishes, calls setError(LoadError) never and
\* leaves the mounted page with error null and loading false; a step that
\* skips an index without ending the refresh leaves the error state alone.
C22_ItemFailuresAbsorbed ==
    /\ [](ended.call \in ItemCalls =>
            /\ ended.kind = "published"
            /\ ended.errs = 0
            /\ page = "mounted" => (error = Null /\ ~loading))
    /\ [][\A c \in Cycles :
            (/\ cyc[c].pc \in ItemCalls
             /\ cyc'[c].pc \in ItemCalls
             /\ cyc'[c] # cyc[c]) =>
                error' = error]_vars

\* both indexes of a refresh failed; it published the empty list and
\* cleared the error a failed refresh had set before
C22_Witness ==
    /\ Published
    /\ ended.count = 2
    /\ ended.skipped = {0, 1}
    /\ ended.resp = "throw"
    /\ error = Null
    /\ viewBlocks = <<>>

\* every BlockCreated was handed to the listener, every refresh that was
\* started has ended, and one has ended since the page was mounted
Settled ==
    /\ page = "mounted"
    /\ listener = "on"
    /\ undelivered = 0
    /\ ~loading
    /\ \A c \in Cycles : cyc[c].pc = "idle"

\* C23: once every notification has triggered its refresh and every
\* refresh has ended, the view has one entry for every stored record.
C23_ViewCurrent ==
    Settled =>
        /\ Len(viewBlocks) = blockCount
        /\ \A k \in 1 .. Len(viewBlocks) : viewBlocks[k].id = blockCount - k

\* C28: when every call succeeds, a refresh publishes the entries of the
\* ids count-1 .. 0 for the count it read, skipping none, however many
\* records were appended while it ran.
C28_CompleteUpToCount ==
    Published =>
        /\ ended.skipped = {}
        /\ ended.count <= blockCount
        /\ Len(viewBlocks) = ended.count
        /\ \A k \in 1 .. Len(viewBlocks) : viewBlocks[k].id = ended.count - k

\* a refresh read count 1, a second record was appended while it ran, and
\* it published the entry of record 0 alone
C28_Witness ==
    /\ Published
    /\ ended.count = 1
    /\ blockCount = 2
    /\ Len(viewBlocks) = 1
    /\ viewBlocks[1].id = 0

\* C24: a save action that was declined (no signer, or the wallet rejected
\* the transaction) has ended; it asked the wallet at most once, left no
\* transaction behind, and the ledger has the records, the count and the
\* log it had when the action started.
C24_DeclinedNotRetried ==
    home.outcome \in {"no signer", "rejected"} =>
        /\ home.pc = "idle"
        /\ home.sent <= 1
        /\ home.outcome = "no signer" => home.sent = 0
        /\ pool = {}
        /\ blockCount = home.seen
        /\ Len(blocks) = home.seen
        /\ Len(events) = home.seen
        /\ Len(appends) = home.seen

\* with one record stored, the wallet rejected the transaction of a save
C24_Witness ==
    /\ home.outcome = "rejected"
    /\ home.sent = 1
    /\ home.seen = 1
    /\ blockCount = 1

\* the refresh L can have fetched the stream: it is past the queryFilter
\* of its current index, or it has been through an earlier index
FetchedStream(L) ==
    \/ L.pc \in {"getTransactionReceipt", "getEthBlock"}
    \/ L.i < L.count - 1

\* C25: a refresh that awaits a record lookup has fetched the notification
\* stream before.
C25_StreamBeforeLookups ==
    \A c \in Cycles : cyc[c].pc = "getBlock" => FetchedStream(cyc[c])

C27_NoRefreshAfterUnmount ==
    page = "unmounted" => ~ENABLED Deliver

\* C29: every stored sum is the exact sum of what its append supplied and
\* fits the integer width; a saveSum(a, b) whose a + b does not fit fails
\* and leaves the records, the count and the log as they were.
C29_NoWrappedSum ==
    /\ [](\A k \in 1 .. Len(blocks) :
            /\ blocks[k].sum = appends[k].sum
            /\ blocks[k].sum <= MaxUint)
    /\ [][(last'.op = "saveSum" /\ last'.a + last'.b > MaxUint) =>
            /\ last'.err # ""
            /\ blocks' = blocks
            /\ blockCount' = blockCount
            /\ events' = events]_vars

\* saveSum(MaxUint, MaxUint) failed on a ledger that holds a record
C29_Witness ==
    /\ last.op = "saveSum"
    /\ last.a = MaxUint /\ last.b = MaxUint
    /\ last.err # ""
    /\ Len(blocks) >= 1

\* the logs whose transaction is in chain block n
LogsIn(n) == {k \in 1 .. Len(events) : receipts[k] = n}

\* C30: the details page shows a record whose transaction is in the
\* requested chain block, and says "Block not found" when no BlockCreated
\* was emitted in that chain block.
C30_DetailsOfRequestedCommit ==
    last.op = "fetchBlockDetails" =>
        IF LogsIn(last.id) = {}
        THEN last.err = "Block not found"
        ELSE /\ last.err = ""
             /\ last.ret[1].blockNumber = last.id
             /\ \E k \in LogsIn(last.id) : last.ret[1].block = blocks[k]

====
